---- MODULE Spec2Model ----
(***************************************************************************)
(* RefineDetLoss (Applications/RefineDet/refinedet_loss.cpp): the loss     *)
(* layer of a two-stage anchor based detector.  forwarding matches the     *)
(* anchors against the ground truth, mines hard negatives, caches the      *)
(* masks and targets and reports the loss; calcDerivative replays the      *)
(* cache and emits the gradient.                                           *)
(*                                                                         *)
(* Numbers.  The program computes in float.  The model computes in fixed   *)
(* point, with one integer grid per kind of quantity:                      *)
(*   coordinates and sizes   multiples of 1/CoordOne of a pixel            *)
(*   IoU                     multiples of 1/IouOne                         *)
(*   logits                  whole numbers                                 *)
(*   probabilities, losses, offsets, gradients   multiples of 1/One        *)
(* A division rounds down to the grid (as float rounds to its own grid),   *)
(* and a division by zero yields NonFinite or is refused, see divide_i.    *)
(* Vectors are functions on 0 .. n-1, so that indices are the program's.   *)
(***************************************************************************)
EXTENDS Integers, Sequences, FiniteSets, TLC

\* ---------------------------------------------------------------- constants
feature_map_size1 == 28
feature_map_size2 == 14
feature_map_size3 == 4
feature_map_size4 == 2
num_ratios == 3
num_classes == 21
max_gt_boxes == 5
arm_conf_loss_divider == 1

\* ------------------------------------------------------------------- bounds
\* The model's anchor grid: the first NumScales scales of create_anchors, each
\* reduced to one cell (the program: 4 scales of 28, 14, 4 and 2 cells a side).
NumScales == 2
\* Batch sizes 1 .. MaxBatch.
MaxBatch == 2
\* Ground-truth slots of an item that the inputs fill (the rest are zero).
MaxGt == 2
\* Prediction tensors the inputs draw from.
NumPatterns == 2
\* calcDerivative calls observed after one forwarding.
MaxDerivs == 2

\* -------------------------------------------------------------- fixed point
CoordOne == 4
IouOne == 1024
One == 1000
\* The value of a float that is not finite (x/0, 0/0).
NonFinite == 1000000000

\* log(1e-20), in 1/One
LogEps == -46052

\* TLC: hold a vector as a table of its values instead of recomputing an
\* element each time it is read.
Table(f) == IF f = f THEN f ELSE f

Vec(n, F(_)) == Table([i \in 0 .. n - 1 |-> F(i)])

Size(v) == Cardinality(DOMAIN v)

push_back(v, x) == Table([i \in 0 .. Size(v) |-> IF i < Size(v) THEN v[i] ELSE x])

cat(u, v) ==
    Table([i \in 0 .. Size(u) + Size(v) - 1 |-> IF i < Size(u) THEN u[i] ELSE v[i - Size(u)]])

Max2(a, b) == IF a < b THEN b ELSE a

Min2(a, b) == IF b < a THEN b ELSE a

relu(x) == IF x < 0 THEN 0 ELSE x

RECURSIVE SumTo(_, _)
\* f(0) + ... + f(n-1)
SumTo(f, n) == IF n = 0 THEN 0 ELSE SumTo(f, n - 1) + f[n - 1]

\* Tensor::divide / std::divides<float>: x / d on a grid, NonFinite for d = 0.
Div(x, d) == IF d = 0 \/ x = NonFinite THEN NonFinite ELSE x \div d

RECURSIVE Ln(_, _)
\* log(num / den) in 1/One, num, den > 0: piecewise linear between the powers of two.
Ln(num, den) ==
    IF num >= 2 * den THEN Ln(num, 2 * den) + 693
    ELSE IF num < den THEN Ln(2 * num, den) - 693
    ELSE (693 * (num - den)) \div den

\* log(x + 1e-20) for x = num / den >= 0
log_(num, den) == IF num <= 0 THEN LogEps ELSE Ln(num, den)

\* exp(d) in 1/One for a whole d <= 0 (softmax subtracts the row maximum)
exp_(d) ==
    CASE d = 0 -> 1000
      [] d = -1 -> 368
      [] d = -2 -> 135
      [] d = -3 -> 50
      [] d = -4 -> 18
      [] OTHER -> 0

\* ------------------------------------------------------------------ anchors
\* pow(ratio, 0.5) in 1/10000 for the three anchor_ratios {0.5, 1, 2}
anchor_ratios == <<7071, 10000, 14142>>

\* A size rounded to half a pixel, so that size / 2 is exact on the grid.
HalfPixel(num, den) == 2 * ((2 * num) \div den)

\* Variant: one anchor per cell, the ratios left out.
create_anchors_one_ratio(anchor_size, stride, feature_map_size) ==
    [yx |-> Vec(feature_map_size * feature_map_size,
                LAMBDA i : << ((2 * (i \div feature_map_size) + 1) * stride * CoordOne) \div 2,
                              ((2 * (i % feature_map_size) + 1) * stride * CoordOne) \div 2 >>),
     hw |-> Vec(feature_map_size * feature_map_size,
                LAMBDA i : <<anchor_size * CoordOne, anchor_size * CoordOne>>)]

\* Variant: the three ratios of a cell follow each other, anchor i being
\* row i / (3 fm), col (i / 3) % fm, ratio i % 3.
create_anchors_cell_major(anchor_size, stride, feature_map_size) ==
    LET n == num_ratios * feature_map_size * feature_map_size
        h(i) == i \div (num_ratios * feature_map_size)
        w(i) == (i \div num_ratios) % feature_map_size
        yx(i) == << ((2 * h(i) + 1) * stride * CoordOne) \div 2,
                    ((2 * w(i) + 1) * stride * CoordOne) \div 2 >>
        priors(r) == << HalfPixel(anchor_size * anchor_ratios[r + 1], 10000),
                        HalfPixel(anchor_size * 10000, anchor_ratios[r + 1]) >>
    IN  [yx |-> Vec(n, yx), hw |-> Vec(n, LAMBDA i : priors(i % num_ratios))]

\* create_anchors_: Tensor(ratios, fm, fm, 2) filled at (b, h, w, c) and reshaped
\* to (1, 1, ratios * fm * fm, 2): anchor i is ratio b = i / fm^2, row h, col w.
create_anchors_(anchor_size, stride, feature_map_size) ==
    LET n == num_ratios * feature_map_size * feature_map_size
        b(i) == i \div (feature_map_size * feature_map_size)
        h(i) == (i \div feature_map_size) % feature_map_size
        w(i) == i % feature_map_size
        yx(i) == << ((2 * h(i) + 1) * stride * CoordOne) \div 2,
                    ((2 * w(i) + 1) * stride * CoordOne) \div 2 >>
        priors(r) == << HalfPixel(anchor_size * anchor_ratios[r + 1], 10000),
                        HalfPixel(anchor_size * 10000, anchor_ratios[r + 1]) >>
    IN  [yx |-> Vec(n, yx), hw |-> Vec(n, LAMBDA i : priors(b(i)))]

\* Tensor::cat({anchors1[k], anchors2[k], anchors3[k], anchors4[k]}, 2) for the
\* centers (k = 0) and the sizes (k = 1).
cat_anchors(anchors1, anchors2, anchors3, anchors4) ==
    [yx |-> cat(cat(cat(anchors1.yx, anchors2.yx), anchors3.yx), anchors4.yx),
     hw |-> cat(cat(cat(anchors1.hw, anchors2.hw), anchors3.hw), anchors4.hw)]

\* create_anchors: the four scales concatenated along the anchor axis.
create_anchors(f1, f2, f3, f4) ==
    cat_anchors(create_anchors_(8 * 4, 8, f1), create_anchors_(16 * 4, 16, f2),
                create_anchors_(32 * 4, 32, f3), create_anchors_(64 * 4, 64, f4))

ModelFeatureMap(s) == IF s <= NumScales THEN 1 ELSE 0

\* The anchors of the model's grid (what forwarding and calcDerivative build).
anchors ==
    create_anchors(ModelFeatureMap(1), ModelFeatureMap(2), ModelFeatureMap(3), ModelFeatureMap(4))

anchors_num == Size(anchors.yx)

\* ---------------------------------------------------------------- calc_iou
\* box1: the anchors (centers yx, sizes hw); box2: one box (center, size).
\* The area of box2 is taken from its height and width converted to
\* unsigned int, i.e. truncated to whole pixels.
calc_iou(box1_yx, box1_hw, box2_yx, box2_hw) ==
    LET box2_y1 == box2_yx[1] - box2_hw[1] \div 2
        box2_x1 == box2_yx[2] - box2_hw[2] \div 2
        box2_y2 == box2_yx[1] + box2_hw[1] \div 2
        box2_x2 == box2_yx[2] + box2_hw[2] \div 2
        box2_h == box2_hw[1] \div CoordOne
        box2_w == box2_hw[2] \div CoordOne
        iou(i) ==
            LET box1_y1 == box1_yx[i][1] - box1_hw[i][1] \div 2
                box1_x1 == box1_yx[i][2] - box1_hw[i][2] \div 2
                box1_y2 == box1_yx[i][1] + box1_hw[i][1] \div 2
                box1_x2 == box1_yx[i][2] + box1_hw[i][2] \div 2
                inter_x1 == Max2(box1_x1, box2_x1)
                inter_x2 == Min2(box1_x2, box2_x2)
                inter_y1 == Max2(box1_y1, box2_y1)
                inter_y2 == Min2(box1_y2, box2_y2)
                inter_area == relu(inter_x2 - inter_x1) * relu(inter_y2 - inter_y1)
                union == box1_hw[i][1] * box1_hw[i][2]
                           + box2_h * box2_w * CoordOne * CoordOne - inter_area
            IN  Div(inter_area * IouOne, union)
    IN  Vec(Size(box1_yx), iou)

\* ------------------------------------------------------------ loss functions
RECURSIVE RowMaxTo(_, _)
\* the largest of row[0 .. n-1]
RowMaxTo(row, n) == IF n = 1 THEN row[0] ELSE Max2(RowMaxTo(row, n - 1), row[n - 1])

\* ActiFunc::softmax of one row of logits: probabilities in 1/One.
softmax(row) ==
    LET m == RowMaxTo(row, Size(row))
        e == Table([j \in DOMAIN row |-> exp_(row[j] - m)])
        total == SumTo(e, Size(row))
    IN  Table([j \in DOMAIN row |-> (e[j] * One) \div total])

\* -log(softmax(x[a])[l] + 1e-20)
anchor_loss(row, l) == 0 - log_(softmax(row)[l], One)

\* Variant: only the rows of label 1 are summed.
cross_entropy_positive_rows(x, l) ==
    SumTo(Table([a \in DOMAIN x |-> IF l[a] = 0 THEN 0 ELSE anchor_loss(x[a], l[a])]), Size(x))

cross_entropy(x, l) ==
    SumTo(Table([a \in DOMAIN x |-> anchor_loss(x[a], l[a])]), Size(x))

cross_entropy_with_mask(x, mask, l) ==
    SumTo(Table([a \in DOMAIN x |-> IF mask[a] = 0 THEN 0 ELSE anchor_loss(x[a], l[a])]), Size(x))

\* idx_loss(l.size()) value-initialises l.size() pairs (0, 0.0f); the loop then
\* push_backs one (a, loss) pair per anchor behind them.
cross_entropy_per_anchor(x, l) ==
    LET n == Size(l)
    IN  Table([k \in 0 .. n + Size(x) - 1 |->
            IF k < n THEN <<0, 0>> ELSE <<k - n, anchor_loss(x[k - n], l[k - n])>>])

\* std::sort by the second component.  The order of pairs of equal loss is not
\* specified: "first" keeps them in their order, "last" reverses it.
SortOrders == {"first", "last"}

sort(v, order) ==
    LET n == Size(v)
        before(i, j) ==
            \/ v[i][2] < v[j][2]
            \/ v[i][2] = v[j][2] /\ (IF order = "first" THEN i < j ELSE j < i)
        rank(i) == Cardinality({j \in 0 .. n - 1 : before(j, i)})
    IN  Table([r \in 0 .. n - 1 |-> v[CHOOSE i \in 0 .. n - 1 : rank(i) = r]])

smooth_l1_elem(val) ==
    LET a == IF val < 0 THEN 0 - val ELSE val
    IN  IF a < One THEN (a * a) \div (2 * One) ELSE a - One \div 2

\* x, y: one 4-vector (yx, hw) per anchor; l: the mask of the rows that count.
smooth_l1(x, y, l) ==
    SumTo(Table([i \in DOMAIN x |->
              IF l[i] = 0 THEN 0
              ELSE smooth_l1_elem(x[i][1] - y[i][1]) + smooth_l1_elem(x[i][2] - y[i][2])
                   + smooth_l1_elem(x[i][3] - y[i][3]) + smooth_l1_elem(x[i][4] - y[i][4])]),
          Size(x))

\* Variant: the subtraction is written into y, the target.
smooth_l1_y_subtracted(x, y, l) ==
    Table([i \in DOMAIN y |->
        <<y[i][1] - x[i][1], y[i][2] - x[i][2], y[i][3] - x[i][3], y[i][4] - x[i][4]>>])

\* What a call of smooth_l1 leaves in y, the tensor it takes by reference:
\* x.subtract_i(y) and the steps behind it write x only.
smooth_l1_y(x, y, l) == y

\* gt_yxhw: the regression target of every anchor, from the cached center and
\* size labels: (label_yx - anchor_yx) / anchor_hw and log(label_hw / anchor_hw + 1e-20).
\* anc: the anchors the caller built with create_anchors.
encode_target(label_yx, label_hw, anc) ==
    Table([i \in DOMAIN label_yx |->
        << ((label_yx[i][1] - anc.yx[i][1]) * One) \div anc.hw[i][1],
           ((label_yx[i][2] - anc.yx[i][2]) * One) \div anc.hw[i][2],
           log_(label_hw[i][1], anc.hw[i][1]),
           log_(label_hw[i][2], anc.hw[i][2]) >>])

\* Tensor::cat({yx, hw}, 3)
yxhw(rows, f1, f2) ==
    Table([i \in DOMAIN rows |-> <<rows[i][f1][1], rows[i][f1][2], rows[i][f2][1], rows[i][f2][2]>>])

\* --------------------------------------------------------------- forwarding
\* gt.split: corner form (yx1, yx2) to center and size.
gt_center(box) == <<(box.yx1[1] + box.yx2[1]) \div 2, (box.yx1[2] + box.yx2[2]) \div 2>>

gt_size(box) ==
    <<(box.yx2[1] - gt_center(box)[1]) * 2, (box.yx2[2] - gt_center(box)[2]) * 2>>

\* gt_is_label.getValue(i): element i of the flat (batch, 1, max_gt_boxes, 1) tensor.
gt_is_label(gt_, i) == gt_[i \div max_gt_boxes][i % max_gt_boxes].is_label

\* The presence flags are read once, before the batch loop, up to the first 0.
count_gt_boxes(gt_) ==
    LET zeros == {i \in 0 .. max_gt_boxes - 1 : gt_is_label(gt_, i) = 0}
    IN  IF zeros = {} THEN max_gt_boxes
        ELSE CHOOSE i \in zeros : \A j \in zeros : i <= j

\* std::max_element: the first position of the largest value.
max_element(v) ==
    CHOOSE i \in DOMAIN v : /\ \A j \in DOMAIN v : v[j] <= v[i]
                            /\ \A j \in DOMAIN v : j < i => v[j] < v[i]

\* Variant: a ground truth of equal IoU replaces the recorded one.
better_or_equal_match(recorded_iou, iou) == recorded_iou <= iou

\* if (anchor_gt_label_iou[i] < anc_gt_iou[i])
better_match(recorded_iou, iou) == recorded_iou < iou

\* Lines 353-367 for one ground truth g of center yx and size hw: the best
\* match of every anchor and the positive set, given the IoU of every anchor.
match_update(st, g, yx, hw, anc_gt_iou) ==
    LET better(i) == better_match(st.anchor_gt_label_iou[i], anc_gt_iou[i])
    IN  [anchor_gt_label_idx |->
            Table([i \in DOMAIN anc_gt_iou |-> IF better(i) THEN g ELSE st.anchor_gt_label_idx[i]]),
         anchor_gt_label_iou |->
            Table([i \in DOMAIN anc_gt_iou |->
                IF better(i) THEN anc_gt_iou[i] ELSE st.anchor_gt_label_iou[i]]),
         anchor_gt_label_yx |->
            Table([i \in DOMAIN anc_gt_iou |-> IF better(i) THEN yx ELSE st.anchor_gt_label_yx[i]]),
         anchor_gt_label_hw |->
            Table([i \in DOMAIN anc_gt_iou |-> IF better(i) THEN hw ELSE st.anchor_gt_label_hw[i]]),
         positive_idx_set |->
            st.positive_idx_set \cup {max_element(anc_gt_iou)}
              \cup {i \in DOMAIN anc_gt_iou : 2 * anc_gt_iou[i] > IouOne},
         anc_gt_iou |-> push_back(st.anc_gt_iou, anc_gt_iou)]

\* Line 350: the IoU of every anchor with the box of center yx and size hw.
match_box(st, g, yx, hw, anc) == match_update(st, g, yx, hw, calc_iou(anc.yx, anc.hw, yx, hw))

\* One round of the loop over the ground truths: st holds the locals.
match_step(st, g, box, anc) == match_box(st, g, gt_center(box), gt_size(box), anc)

RECURSIVE match(_, _, _, _)
\* The state after the ground truths 0 .. n-1 of one item.
match(gt_b, n, st0, anc) ==
    IF n = 0 THEN st0 ELSE match_step(match(gt_b, n - 1, st0, anc), n - 1, gt_b[n - 1], anc)

\* The locals before the loop, for n anchors.
match_init(n) ==
    [anchor_gt_label_idx |-> Vec(n, LAMBDA i : 0),
     anchor_gt_label_iou |-> Vec(n, LAMBDA i : 0),
     anchor_gt_label_yx |-> Vec(n, LAMBDA i : <<0, 0>>),
     anchor_gt_label_hw |-> Vec(n, LAMBDA i : <<0, 0>>),
     positive_idx_set |-> {},
     anc_gt_iou |-> <<>>]

\* Variant: the negative mask starts with every anchor set, the positives too.
arm_filter_all_anchors(positive_mask_b, arm_conf_) ==
    LET negative_mask == Table([i \in DOMAIN positive_mask_b |->
            IF 100 * arm_conf_[i][1] > 99 THEN 0 ELSE 1])
        dropped == {i \in DOMAIN positive_mask_b : 100 * arm_conf_[i][1] > 99}
    IN  [negative_mask |-> negative_mask,
         num_negative_anchors |-> Size(positive_mask_b) - Cardinality(dropped)]

\* Negative anchor filtering: the complement of the positive mask, without the
\* anchors whose ARM logit 1 (arm_conf_.getValue(2 * i + 1)) is above 0.99.
arm_filter(positive_mask_b, arm_conf_) ==
    LET negative_mask == Table([i \in DOMAIN positive_mask_b |->
            IF 100 * arm_conf_[i][1] > 99 /\ 1 - positive_mask_b[i] # 0
            THEN 0 ELSE 1 - positive_mask_b[i]])
        dropped == {i \in DOMAIN positive_mask_b :
                       100 * arm_conf_[i][1] > 99 /\ 1 - positive_mask_b[i] # 0}
    IN  [negative_mask |-> negative_mask,
         num_negative_anchors |->
            Size(positive_mask_b) - SumTo(positive_mask_b, Size(positive_mask_b))
              - Cardinality(dropped)]

\* Lines 412-416 for anchor i: the entry of the negative mask is set to the
\* complement of the positive mask and cleared again, with the count lowered,
\* where the ARM logit 1 is above 0.99.
prefilter_step(st, i, positive_mask_b, arm_conf_) ==
    IF 100 * arm_conf_[i][1] > 99 /\ 1 - positive_mask_b[i] # 0
    THEN [negative_mask |-> [st.negative_mask EXCEPT ![i] = 0],
          num_negative_anchors |-> st.num_negative_anchors - 1]
    ELSE [negative_mask |-> [st.negative_mask EXCEPT ![i] = 1 - positive_mask_b[i]],
          num_negative_anchors |-> st.num_negative_anchors]

RECURSIVE prefilter_to(_, _, _)
\* The locals after the first n rounds of the filter loop, from lines 408-409:
\* the count anchors_num - num_positive_anchors[b] and a mask of zeros.
prefilter_to(n, positive_mask_b, arm_conf_) ==
    IF n = 0
    THEN [negative_mask |-> Vec(Size(positive_mask_b), LAMBDA i : 0),
          num_negative_anchors |->
              Size(positive_mask_b) - SumTo(positive_mask_b, Size(positive_mask_b))]
    ELSE prefilter_step(prefilter_to(n - 1, positive_mask_b, arm_conf_), n - 1,
                        positive_mask_b, arm_conf_)

\* Variant: the loop visits as many pairs as there are anchors.
mining_limit_anchors(arm_loss_per_anchor) == Size(arm_loss_per_anchor) \div 2

\* The number of sorted pairs the mining loop may visit.
mining_limit(arm_loss_per_anchor) == Size(arm_loss_per_anchor)

RECURSIVE mining_loop_unguarded(_, _, _, _)
\* Variant: the entry is cleared and the count lowered without the test of
\* negative_mask[idx].
mining_loop_unguarded(arm_loss_per_anchor, i, st, cap) ==
    IF i < mining_limit(arm_loss_per_anchor) /\ st.num_negative_anchors > cap
    THEN mining_loop_unguarded(arm_loss_per_anchor, i + 1,
             [negative_mask |-> [st.negative_mask EXCEPT ![arm_loss_per_anchor[i][1]] = 0],
              num_negative_anchors |-> st.num_negative_anchors - 1],
             cap)
    ELSE st

RECURSIVE mining_loop(_, _, _, _)
\* for (i = 0; i < arm_loss_per_anchor.size() && num_negative_anchors > cap; i++)
mining_loop(arm_loss_per_anchor, i, st, cap) ==
    IF i < mining_limit(arm_loss_per_anchor) /\ st.num_negative_anchors > cap
    THEN LET idx == arm_loss_per_anchor[i][1]
         IN  mining_loop(arm_loss_per_anchor, i + 1,
                 IF st.negative_mask[idx] # 0
                 THEN [negative_mask |-> [st.negative_mask EXCEPT ![idx] = 0],
                       num_negative_anchors |-> st.num_negative_anchors - 1]
                 ELSE st,
                 cap)
    ELSE st

\* Hard negative mining: at most 3 negatives per positive survive.
hard_negative_mining(st, arm_conf_, positive_mask_b, npos, order) ==
    LET arm_loss_per_anchor == sort(cross_entropy_per_anchor(arm_conf_, positive_mask_b), order)
    IN  IF st.num_negative_anchors > 3 * npos
        THEN mining_loop(arm_loss_per_anchor, 0, st, 3 * npos)
        ELSE st

\* pos_neg_mask[b][i] = positive_mask[b][i] + negative_mask[i]
odm_mask(positive_mask_b, negative_mask) ==
    Table([i \in DOMAIN positive_mask_b |-> positive_mask_b[i] + negative_mask[i]])

\* gt_class_labels[b][i]: 0 for a negative, else the argmax of the class vector of
\* the ground truth anchor_gt_label_idx[i].
odm_labels(negative_mask, anchor_gt_label_idx, gt_b) ==
    Table([i \in DOMAIN negative_mask |->
        IF negative_mask[i] # 0 THEN 0 ELSE max_element(gt_b[anchor_gt_label_idx[i]].class)])

\* Lines 499-507: the four additions to output, and what the item leaves in the
\* cache and in the locals of the iteration.
item_losses(in_b, num_gt_boxes, m, positive_mask_b, npos, arm_conf_, odm_conf_, gt_yxhw, mined, pos_neg_mask_b, gt_class_labels_b) ==
    [positive_mask |-> positive_mask_b,
     pos_neg_mask |-> pos_neg_mask_b,
     anchor_gt_label_yx |-> m.anchor_gt_label_yx,
     anchor_gt_label_hw |-> m.anchor_gt_label_hw,
     gt_class_labels |-> gt_class_labels_b,
     num_positive_anchors |-> npos,
     \* locals of the iteration
     num_gt_boxes |-> num_gt_boxes,
     anc_gt_iou |-> m.anc_gt_iou,
     anchor_gt_label_idx |-> m.anchor_gt_label_idx,
     anchor_gt_label_iou |-> m.anchor_gt_label_iou,
     negative_mask |-> mined.negative_mask,
     num_negative_anchors |-> mined.num_negative_anchors,
     \* what the four output.add_i calls add
     added |->
        << IF npos # 0
           THEN (cross_entropy(arm_conf_, positive_mask_b) \div npos) \div arm_conf_loss_divider
           ELSE 0,
           IF npos # 0
           THEN smooth_l1(yxhw(in_b, "arm_yx", "arm_hw"), gt_yxhw, positive_mask_b) \div npos
           ELSE 0,
           IF npos # 0
           THEN cross_entropy_with_mask(odm_conf_, pos_neg_mask_b, gt_class_labels_b) \div npos
           ELSE 0,
           IF npos # 0
           THEN smooth_l1(yxhw(in_b, "odm_yx", "odm_hw"),
                          smooth_l1_y(yxhw(in_b, "arm_yx", "arm_hw"), gt_yxhw, positive_mask_b),
                          positive_mask_b) \div npos
           ELSE 0 >>,
     \* gt_yxhw as line 398 builds it, and as it is when line 505 reads it
     gt_yxhw |-> gt_yxhw,
     odm_gt_yxhw |->
        IF npos # 0
        THEN smooth_l1_y(yxhw(in_b, "arm_yx", "arm_hw"), gt_yxhw, positive_mask_b)
        ELSE gt_yxhw]

\* Lines 458-478: the ODM mask and labels from the mined negative mask.
item_odm(in_b, gt_b, num_gt_boxes, m, positive_mask_b, npos, arm_conf_, odm_conf_, gt_yxhw, mined) ==
    item_losses(in_b, num_gt_boxes, m, positive_mask_b, npos, arm_conf_, odm_conf_, gt_yxhw,
                mined, odm_mask(positive_mask_b, mined.negative_mask),
                odm_labels(mined.negative_mask, m.anchor_gt_label_idx, gt_b))

\* Lines 408-432: negative anchor filtering and hard negative mining.
item_mining(in_b, gt_b, num_gt_boxes, order, m, positive_mask_b, npos, arm_conf_, odm_conf_, gt_yxhw) ==
    item_odm(in_b, gt_b, num_gt_boxes, m, positive_mask_b, npos, arm_conf_, odm_conf_, gt_yxhw,
             hard_negative_mining(arm_filter(positive_mask_b, arm_conf_),
                                  arm_conf_, positive_mask_b, npos, order))

\* Lines 370-398: the positive mask and count, and the regression targets,
\* from the locals m the matching left.
item_matched(in_b, gt_b, num_gt_boxes, order, anc, m) ==
    item_mining(in_b, gt_b, num_gt_boxes, order, m,
                Vec(Size(anc.yx), LAMBDA i : IF i \in m.positive_idx_set THEN 1 ELSE 0),
                Cardinality(m.positive_idx_set),
                Table([a \in DOMAIN in_b |-> in_b[a].arm_conf]),
                Table([a \in DOMAIN in_b |-> in_b[a].odm_conf]),
                encode_target(m.anchor_gt_label_yx, m.anchor_gt_label_hw, anc))

\* The body of the batch loop for item b: in_b its predictions (one row per
\* anchor), gt_b its ground truth rows, num_gt_boxes the count read before the
\* loop, anc the anchors.
forward_item(in_b, gt_b, num_gt_boxes, order, anc) ==
    item_matched(in_b, gt_b, num_gt_boxes, order, anc,
                 match(gt_b, num_gt_boxes, match_init(Size(anc.yx)), anc))

\* ----------------------------------------------------------- calcDerivative
\* Tensor::divide_i(value).  For value = 0 the tensor library either refuses
\* (returns an error code the callers drop, the tensor stays as it is) or
\* divides, which leaves no finite element.
ZeroDivisions == {"refused", "nonfinite"}

divide_i(t, value, zdiv) ==
    Table([i \in DOMAIN t |-> [j \in DOMAIN t[i] |->
        IF value # 0 THEN t[i][j] \div value
        ELSE IF zdiv = "refused" THEN t[i][j] ELSE NonFinite]])

\* One row of softmax(x) - label, label the one-hot row of class l.
softmax_minus_label(row, l) ==
    LET p == softmax(row)
    IN  Table([j \in DOMAIN row |-> p[j] - (IF j = l THEN One ELSE 0)])

cross_entropy_derivative(x, l, npos, zdiv) ==
    divide_i(Table([i \in DOMAIN x |-> softmax_minus_label(x[i], l[i])]), npos, zdiv)

cross_entropy_with_mask_derivative(x, mask, l, npos, zdiv) ==
    divide_i(Table([i \in DOMAIN x |->
                 IF mask[i] = 0 THEN Table([j \in DOMAIN x[i] |-> 0])
                 ELSE softmax_minus_label(x[i], l[i])]),
             npos, zdiv)

\* Variant: the gradient of the plain L1 loss, the sign of val.
l1_derivative_elem(val) == IF val < 0 THEN 0 - One ELSE IF val > 0 THEN One ELSE 0

\* The lambda of smooth_l1_derivative.
smooth_l1_derivative_elem(val) ==
    IF 0 - One < val /\ val < One THEN val
    ELSE IF val < 0 THEN 0 - One
    ELSE IF val > 0 THEN One
    ELSE 0

\* What a call of smooth_l1_derivative leaves in y: as smooth_l1, it writes x only.
smooth_l1_derivative_y(x, y, l) == y

\* x_deriv1 (the yx columns) and x_deriv2 (the hw columns)
smooth_l1_derivative(x, y, l) ==
    LET d(i, c) == IF l[i] = 0 THEN 0 ELSE smooth_l1_derivative_elem(x[i][c] - y[i][c])
    IN  [x_deriv1 |-> Table([i \in DOMAIN x |-> <<d(i, 1), d(i, 2)>>]),
         x_deriv2 |-> Table([i \in DOMAIN x |-> <<d(i, 3), d(i, 4)>>])]

\* odm_hw_deriv_.setZero()
setZero(t) == Table([i \in DOMAIN t |-> [j \in DOMAIN t[i] |-> 0]])

\* The body of the batch loop of calcDerivative for one item: in_b the cached
\* predictions, c the item's entries of the six cached vectors, anc the anchors.
derivative_item(in_b, c, zdiv, anc) ==
    LET npos == c.num_positive_anchors
        arm_conf_ == Table([a \in DOMAIN in_b |-> in_b[a].arm_conf])
        odm_conf_ == Table([a \in DOMAIN in_b |-> in_b[a].odm_conf])
        gt_yxhw == encode_target(c.anchor_gt_label_yx, c.anchor_gt_label_hw, anc)
        arm == smooth_l1_derivative(yxhw(in_b, "arm_yx", "arm_hw"), gt_yxhw, c.positive_mask)
        odm == smooth_l1_derivative(yxhw(in_b, "odm_yx", "odm_hw"),
                   smooth_l1_derivative_y(yxhw(in_b, "arm_yx", "arm_hw"), gt_yxhw, c.positive_mask),
                   c.positive_mask)
    IN  [arm_yx |-> divide_i(arm.x_deriv1, npos, zdiv),
         arm_hw |-> divide_i(arm.x_deriv2, npos, zdiv),
         arm_conf |-> cross_entropy_derivative(arm_conf_, c.positive_mask,
                                               npos * arm_conf_loss_divider, zdiv),
         odm_yx |-> divide_i(odm.x_deriv1, npos, zdiv),
         odm_hw |-> setZero(divide_i(odm.x_deriv2, npos, zdiv)),
         odm_conf |-> cross_entropy_with_mask_derivative(odm_conf_, c.pos_neg_mask,
                                                         c.gt_class_labels, npos, zdiv)]

\* ------------------------------------------------------------------- inputs
\* A box in corner form (as the label tensor holds it) of center yx and size hw;
\* BoxOfAnchor: with the same center and size as anchor i.
CornerBox(yx, hw, cls) ==
    [yx1 |-> <<yx[1] - hw[1] \div 2, yx[2] - hw[2] \div 2>>,
     yx2 |-> <<yx[1] + hw[1] \div 2, yx[2] + hw[2] \div 2>>,
     cls |-> cls]

BoxOfAnchor(i, cls) == CornerBox(anchors.yx[i], anchors.hw[i], cls)

\* The ground-truth boxes of the inputs: the square anchor of the first cell
\* (whole pixels), the flat anchor of the first cell (22.5 x 45 pixels), and a
\* 10 x 10 box that overlaps no anchor of the grid.
SquareBox == BoxOfAnchor(1, 3)

FlatBox == BoxOfAnchor(0, 7)

FarBox ==
    [yx1 |-> <<1000 * CoordOne, 1000 * CoordOne>>,
     yx2 |-> <<1010 * CoordOne, 1010 * CoordOne>>, cls |-> 1]

GtBoxes == <<SquareBox, FlatBox, FarBox>>

GtRow(flag, box) ==
    [is_label |-> flag, yx1 |-> box.yx1, yx2 |-> box.yx2,
     class |-> Vec(num_classes, LAMBDA c : IF c = box.cls THEN 1 ELSE 0)]

ZeroRow ==
    [is_label |-> 0, yx1 |-> <<0, 0>>, yx2 |-> <<0, 0>>, class |-> Vec(num_classes, LAMBDA c : 0)]

\* The label rows of one item: the first n of the MaxGt filled slots are flagged
\* present, the others keep their box but carry flag 0, the rest is zero.
GtItem(n, boxes) ==
    Vec(max_gt_boxes, LAMBDA g : IF g < MaxGt THEN GtRow(IF g < n THEN 1 ELSE 0, boxes[g])
                                 ELSE ZeroRow)

\* All items: n present boxes, box g being the (k + g * step)-th of GtBoxes
\* (step 0: the same box n times); the slots behind them keep the square box
\* under flag 0.
GtItems ==
    {GtItem(n, Table([g \in 0 .. MaxGt - 1 |->
                        IF g < n THEN GtBoxes[((k + g * step) % 3) + 1] ELSE SquareBox])) :
        n \in 0 .. MaxGt, k \in 0 .. 2, step \in 0 .. 1}

\* Items of the repeated runs: no box, and two boxes.
FewGtItems ==
    { GtItem(0, Table([g \in 0 .. MaxGt - 1 |-> SquareBox])),
      GtItem(2, Table([g \in 0 .. MaxGt - 1 |-> IF g = 0 THEN SquareBox ELSE FlatBox])) }

\* A box of the center and height of the tall anchor of the first cell, five
\* eighths as wide: its IoU is above 0.5 with that anchor only.
ThinBox == CornerBox(anchors.yx[2], <<anchors.hw[2][1], (anchors.hw[2][2] * 5) \div 8>>, 5)

\* Items that leave anchor 0 among the negatives: no box, the thin box, and the
\* thin box before the flat box.
ThinGtItems ==
    {GtItem(n, Table([g \in 0 .. MaxGt - 1 |->
                        IF g = 0 THEN ThinBox ELSE IF g < n THEN FlatBox ELSE SquareBox])) :
        n \in 0 .. MaxGt}

\* The label tensors: batches of 1 .. MaxBatch items, the items behind item 0 alike.
Labels(items) ==
    {Table([b \in 0 .. B - 1 |-> IF b = 0 THEN i0 ELSE i1]) :
        B \in 1 .. MaxBatch, i0 \in items, i1 \in items}

ArmLogits == << <<2, 0>>, <<0, 0>>, <<0, 1>>, <<4, 0>>, <<1, 0>>, <<0, 2>>, <<3, 0>> >>

Offsets == <<-2000, -500, 0, 500, 2000>>

\* Row a of item b of prediction tensor p.
PredictionRow(p, b, a) ==
    [arm_yx |-> <<Offsets[(((a + p)) % 5) + 1], Offsets[(((a + b)) % 5) + 1]>>,
     arm_hw |-> <<Offsets[(((2 * a + p)) % 5) + 1], Offsets[(((a + 2 * b + 1)) % 5) + 1]>>,
     arm_conf |-> Table([j \in 0 .. 1 |-> ArmLogits[((a + b + p) % 7) + 1][j + 1]]),
     odm_yx |-> <<Offsets[(((a + 2 * p)) % 5) + 1], Offsets[(((3 * a + b)) % 5) + 1]>>,
     odm_hw |-> <<Offsets[(((3 * a + p + b)) % 5) + 1], Offsets[(((a + p + b + 2)) % 5) + 1]>>,
     odm_conf |-> Table([c \in 0 .. num_classes - 1 |->
                      IF c = (a + p) % num_classes THEN 2 ELSE IF c = 0 THEN 1 ELSE 0])]

Prediction(p, B) == Vec(B, LAMBDA b : Vec(anchors_num, LAMBDA a : PredictionRow(p, b, a)))

\* -------------------------------------------------------------------- state
VARIABLES
    input,                 \* the cached prediction tensor (input_tensor_idx)
    gt,                    \* the cached label tensor (gt_tensor_idx)
    positive_mask,         \* the six cached vectors, one entry per batch item
    pos_neg_mask,
    anchor_gt_label_yx,
    anchor_gt_label_hw,
    gt_class_labels,
    num_positive_anchors,
    loss,                  \* the loss handed to LossLayer::updateLoss
    outgoing_derivative,   \* the gradient handed to the context
    fw,                    \* the per-item results and locals of the last forwarding
    bw,                    \* the cache entries the last calcDerivative passed on
    replaced,              \* the cache the last forwarding found: its length, and
                           \* whether forwarding left other contents than it found
    derivs,                \* calcDerivative calls since the last forwarding
    property               \* the last setProperty call: its values and its outcome

cache ==
    <<positive_mask, pos_neg_mask, anchor_gt_label_yx, anchor_gt_label_hw,
      gt_class_labels, num_positive_anchors>>

vars ==
    <<input, gt, positive_mask, pos_neg_mask, anchor_gt_label_yx, anchor_gt_label_hw,
      gt_class_labels, num_positive_anchors, loss, outgoing_derivative, fw, bw, replaced,
      derivs, property>>

Init ==
    /\ input = <<>>
    /\ gt = <<>>
    /\ positive_mask = <<>>
    /\ pos_neg_mask = <<>>
    /\ anchor_gt_label_yx = <<>>
    /\ anchor_gt_label_hw = <<>>
    /\ gt_class_labels = <<>>
    /\ num_positive_anchors = <<>>
    /\ loss = 0
    /\ outgoing_derivative = <<>>
    /\ fw = <<>>
    /\ bw = <<>>
    /\ replaced = [batch |-> 0, differs |-> FALSE]
    /\ derivs = 0
    /\ property = [values |-> <<>>, result |-> "none"]

\* Variant: the vectors are not emptied before the batch loop.
keep_cache(v) == v

\* positive_mask = {}; ... ; num_positive_anchors = {};
reset_cache(v) == <<>>

\* The push_backs of the batch loop: one entry per item behind what v holds.
RECURSIVE push_items(_, _, _)
push_items(v, items, n) ==
    IF n = 0 THEN v ELSE push_back(push_items(v, items, n - 1), items[n - 1])

Field(items, f) == Table([b \in DOMAIN items |-> items[b][f]])

store(v, items, f) == push_items(reset_cache(v), Field(items, f), Size(items))

\* output after the batch loop: the four additions of every item.
output_sum(items, B) ==
    SumTo(Table([b \in 0 .. B - 1 |->
              items[b].added[1] + items[b].added[2] + items[b].added[3] + items[b].added[4]]), B)

\* Variant: the sum over the items is reported as it is.
batch_loss_undivided(items, B) == output_sum(items, B)

\* output.divide_i(arm_conf.batch()): the loss updateLoss is given.
batch_loss(items, B) == output_sum(items, B) \div B

\* RefineDetLoss::forwarding on the predictions input_ and the labels gt_;
\* order is the order in which this build's std::sort leaves equal losses.
Forwarding(input_, gt_, order) ==
    LET B == Size(input_)
        num_gt_boxes == count_gt_boxes(gt_)
    IN  /\ input' = input_
        /\ gt' = gt_
        /\ fw' = Vec(B, LAMBDA b : forward_item(input_[b], gt_[b], num_gt_boxes, order, anchors))
        /\ positive_mask' = store(positive_mask, fw', "positive_mask")
        /\ pos_neg_mask' = store(pos_neg_mask, fw', "pos_neg_mask")
        /\ anchor_gt_label_yx' = store(anchor_gt_label_yx, fw', "anchor_gt_label_yx")
        /\ anchor_gt_label_hw' = store(anchor_gt_label_hw, fw', "anchor_gt_label_hw")
        /\ gt_class_labels' = store(gt_class_labels, fw', "gt_class_labels")
        /\ num_positive_anchors' = store(num_positive_anchors, fw', "num_positive_anchors")
        /\ loss' = batch_loss(fw', B)
        /\ replaced' = [batch |-> Size(positive_mask), differs |-> cache' # cache]
        /\ derivs' = 0
        /\ UNCHANGED <<outgoing_derivative, bw, property>>

\* Variant: every item is given the entries of item 0.
cache_entry_of_first(b) ==
    [positive_mask |-> positive_mask[0],
     pos_neg_mask |-> pos_neg_mask[0],
     anchor_gt_label_yx |-> anchor_gt_label_yx[0],
     anchor_gt_label_hw |-> anchor_gt_label_hw[0],
     gt_class_labels |-> gt_class_labels[0],
     num_positive_anchors |-> num_positive_anchors[0]]

\* The entries of the cache that calcDerivative indexes for item b.
cache_entry(b) ==
    [positive_mask |-> positive_mask[b],
     pos_neg_mask |-> pos_neg_mask[b],
     anchor_gt_label_yx |-> anchor_gt_label_yx[b],
     anchor_gt_label_hw |-> anchor_gt_label_hw[b],
     gt_class_labels |-> gt_class_labels[b],
     num_positive_anchors |-> num_positive_anchors[b]]

\* Variant: calcDerivative empties the cache when it is done.
invalidate(v) == <<>>

\* What calcDerivative does to the cache when it is done.
after_derivative(v) == v

\* RefineDetLoss::calcDerivative; the framework calls it after forwarding, on
\* the batch forwarding cached.
CalcDerivative(zdiv) ==
    LET B == Size(input)
    IN  /\ B >= 1
        /\ Size(positive_mask) >= B
        /\ derivs < MaxDerivs
        /\ bw' = Vec(B, cache_entry)
        /\ outgoing_derivative' =
              Vec(B, LAMBDA b : derivative_item(input[b], cache_entry(b), zdiv, anchors))
        /\ derivs' = derivs + 1
        /\ positive_mask' = after_derivative(positive_mask)
        /\ pos_neg_mask' = after_derivative(pos_neg_mask)
        /\ anchor_gt_label_yx' = after_derivative(anchor_gt_label_yx)
        /\ anchor_gt_label_hw' = after_derivative(anchor_gt_label_hw)
        /\ gt_class_labels' = after_derivative(gt_class_labels)
        /\ num_positive_anchors' = after_derivative(num_positive_anchors)
        /\ UNCHANGED <<input, gt, loss, fw, replaced, property>>

\* Variant: every list of properties is accepted.
setProperty_accepting(values) == "ok"

\* RefineDetLoss::setProperty: throws std::invalid_argument unless values is empty.
setProperty(values) == IF values # <<>> THEN "invalid_argument" ELSE "ok"

\* The property lists of the calls.
PropertyLists == {<<>>, <<"unit=1">>, <<"name=loss", "trainable=false">>}

\* A call of setProperty; nothing of the layer is touched, whatever the outcome.
SetProperty(values) ==
    /\ property' = [values |-> values, result |-> setProperty(values)]
    /\ UNCHANGED <<input, gt, positive_mask, pos_neg_mask, anchor_gt_label_yx,
                   anchor_gt_label_hw, gt_class_labels, num_positive_anchors, loss,
                   outgoing_derivative, fw, bw, replaced, derivs>>

Configure == \E values \in PropertyLists : SetProperty(values)

Forward(items, patterns, orders) ==
    \E p \in patterns, gt_ \in Labels(items), order \in orders :
        Forwarding(Prediction(p, Size(gt_)), gt_, order)

Backward == \E zdiv \in ZeroDivisions : CalcDerivative(zdiv)

\* Any sequence of forwarding and calcDerivative calls, on few inputs.
Next ==
    \/ Forward(FewGtItems, {NumPatterns}, {"first"})
    \/ Backward

Spec == Init /\ [][Next]_vars

\* One forwarding followed by calcDerivative calls, on all inputs.
FirstForward == positive_mask = <<>> /\ Forward(GtItems, 1 .. NumPatterns, SortOrders)

NextRound ==
    \/ FirstForward
    \/ Backward

SpecRound == Init /\ [][NextRound]_vars

\* One forwarding on few inputs.
ConfiguredForward == positive_mask = <<>> /\ Forward(FewGtItems, 1 .. NumPatterns, {"first"})

\* setProperty calls at any point of one forwarding and its calcDerivative calls.
NextConfigured ==
    \/ Configure
    \/ ConfiguredForward
    \/ Backward

SpecConfigured == Init /\ [][NextConfigured]_vars

\* Every rotation of the ARM logits over the anchors.
LogitPatterns == 1 .. Len(ArmLogits)

\* One forwarding on the items of the thin box, then calcDerivative calls.
MiningForward == positive_mask = <<>> /\ Forward(ThinGtItems, LogitPatterns, SortOrders)

NextMining ==
    \/ MiningForward
    \/ Backward

SpecMining == Init /\ [][NextMining]_vars

\* ------------------------------------------------------------------- claims
Items == DOMAIN fw

Anchors == 0 .. anchors_num - 1

\* The six cached values forwarding computed for one item.
Computed(item) ==
    [positive_mask |-> item.positive_mask,
     pos_neg_mask |-> item.pos_neg_mask,
     anchor_gt_label_yx |-> item.anchor_gt_label_yx,
     anchor_gt_label_hw |-> item.anchor_gt_label_hw,
     gt_class_labels |-> item.gt_class_labels,
     num_positive_anchors |-> item.num_positive_anchors]

\* The boxes of item b that are present: those before its first flag 0.
Present(b) ==
    {g \in 0 .. max_gt_boxes - 1 : \A k \in 0 .. g : gt[b][k].is_label # 0}

\* The boxes forwarding matched for item b.
Processed(b) == 0 .. fw[b].num_gt_boxes - 1

AllZero(t) == \A i \in DOMAIN t : \A j \in DOMAIN t[i] : t[i][j] = 0

ZeroSlice(d) ==
    /\ AllZero(d.arm_yx) /\ AllZero(d.arm_hw) /\ AllZero(d.arm_conf)
    /\ AllZero(d.odm_yx) /\ AllZero(d.odm_hw) /\ AllZero(d.odm_conf)

\* C1: an item whose positive count is 0 adds 0 to the loss in each of the four
\* terms, and calcDerivative emits an all-zero gradient slice for it.
C1_ZeroPositivesContributeNothing ==
    \A b \in Items :
        fw[b].num_positive_anchors = 0 =>
            /\ fw[b].added = <<0, 0, 0, 0>>
            /\ derivs > 0 => ZeroSlice(outgoing_derivative[b])

\* C2: calcDerivative passes on, for every item, exactly the masks, labels,
\* targets and positive count that the most recent forwarding computed.
C2_DerivativeReadsLastForward ==
    derivs > 0 =>
        /\ DOMAIN bw = DOMAIN fw
        /\ \A b \in Items : bw[b] = Computed(fw[b])

\* C2 witness: forwarding ran again and left other cache contents than it
\* found, and calcDerivative has run since.
C2_Witness ==
    /\ derivs > 0
    /\ replaced.batch > 0
    /\ replaced.differs
    /\ \A b \in Items : bw[b] = Computed(fw[b])

\* C3: after forwarding on a batch of B items each of the six cached vectors
\* holds exactly the B entries that call computed.
C3_CacheOverwritten ==
    fw # <<>> =>
        /\ positive_mask = Field(fw, "positive_mask")
        /\ pos_neg_mask = Field(fw, "pos_neg_mask")
        /\ anchor_gt_label_yx = Field(fw, "anchor_gt_label_yx")
        /\ anchor_gt_label_hw = Field(fw, "anchor_gt_label_hw")
        /\ gt_class_labels = Field(fw, "gt_class_labels")
        /\ num_positive_anchors = Field(fw, "num_positive_anchors")
        /\ \A k \in 1 .. 6 : DOMAIN cache[k] = 0 .. Size(input) - 1

\* C3 witness: forwarding found a cache of another batch size and replaced it.
C3_Witness ==
    /\ replaced.batch > 0
    /\ replaced.batch # Size(input)
    /\ Size(positive_mask) = Size(input)
    /\ Size(num_positive_anchors) = Size(input)

\* C4 as stated: once calcDerivative has completed, the cache is invalidated.
C4_CacheInvalidated ==
    derivs > 0 => \A k \in 1 .. 6 : cache[k] = <<>>

\* C4 amended: calcDerivative leaves the cache as it is, and a second
\* calcDerivative with no forwarding in between passes on the same entries.
C4_CacheKeptByDerivative ==
    [][derivs' = derivs + 1 => /\ cache' = cache
                               /\ derivs >= 1 => bw' = bw]_vars

\* C4 witness: two calcDerivative calls after one forwarding, the cache in place.
C4_Witness ==
    /\ derivs = 2
    /\ Size(positive_mask) = Size(input)
    /\ \A b \in Items : bw[b] = Computed(fw[b])

\* C5: an item with a present box has a positive anchor, and for each of its
\* present boxes the first anchor of maximum IoU is positive.
C5_EveryGroundTruthMatched ==
    \A b \in Items :
        Present(b) # {} =>
            /\ num_positive_anchors[b] >= 1
            /\ \A g \in Present(b) :
                  positive_mask[b][max_element(calc_iou(anchors.yx, anchors.hw,
                                       gt_center(gt[b][g]), gt_size(gt[b][g])))] = 1

\* The largest IoU of a processed box at anchor a, and the first box that has it.
BestIou(b, a) ==
    CHOOSE v \in {fw[b].anc_gt_iou[g][a] : g \in Processed(b)} :
        \A g \in Processed(b) : fw[b].anc_gt_iou[g][a] <= v

BestGt(b, a) ==
    CHOOSE g \in Processed(b) :
        /\ fw[b].anc_gt_iou[g][a] = BestIou(b, a)
        /\ \A k \in Processed(b) : fw[b].anc_gt_iou[k][a] = BestIou(b, a) => g <= k

\* C6 as stated: for every anchor the recorded index, IoU and target are those
\* of the processed box of highest IoU there, the earliest among equals.
C6_BestMatchRecorded ==
    \A b \in Items : \A a \in Anchors :
        Processed(b) # {} =>
            /\ fw[b].anchor_gt_label_idx[a] = BestGt(b, a)
            /\ fw[b].anchor_gt_label_iou[a] = BestIou(b, a)
            /\ anchor_gt_label_yx[b][a] = gt_center(gt[b][BestGt(b, a)])
            /\ anchor_gt_label_hw[b][a] = gt_size(gt[b][BestGt(b, a)])

\* C6 amended: the recorded index and IoU are those of the earliest processed
\* box of highest IoU; the target is that box's center and size where the IoU
\* is above 0, and the zero target where every processed box has IoU 0.
C6_BestMatchWhereOverlap ==
    \A b \in Items : \A a \in Anchors :
        Processed(b) # {} =>
            /\ fw[b].anchor_gt_label_idx[a] = BestGt(b, a)
            /\ fw[b].anchor_gt_label_iou[a] = BestIou(b, a)
            /\ \A g \in Processed(b) : fw[b].anc_gt_iou[g][a] <= fw[b].anchor_gt_label_iou[a]
            /\ BestIou(b, a) > 0 =>
                  /\ anchor_gt_label_yx[b][a] = gt_center(gt[b][BestGt(b, a)])
                  /\ anchor_gt_label_hw[b][a] = gt_size(gt[b][BestGt(b, a)])
            /\ BestIou(b, a) = 0 =>
                  /\ anchor_gt_label_yx[b][a] = <<0, 0>>
                  /\ anchor_gt_label_hw[b][a] = <<0, 0>>

\* C6 witness: two processed boxes tie above 0 at an anchor where the earlier
\* one is recorded, and at an anchor of some item the later box is the better
\* one and is recorded.
C6_Witness ==
    /\ \E b \in Items : \E a1 \in Anchors :
          /\ fw[b].num_gt_boxes = 2
          /\ fw[b].anc_gt_iou[0][a1] = fw[b].anc_gt_iou[1][a1]
          /\ fw[b].anc_gt_iou[0][a1] > 0
          /\ fw[b].anchor_gt_label_idx[a1] = 0
          /\ anchor_gt_label_hw[b][a1] = gt_size(gt[b][0])
    /\ \E b \in Items : \E a2 \in Anchors :
          /\ fw[b].num_gt_boxes = 2
          /\ fw[b].anc_gt_iou[0][a2] < fw[b].anc_gt_iou[1][a2]
          /\ fw[b].anchor_gt_label_idx[a2] = 1
          /\ anchor_gt_label_hw[b][a2] = gt_size(gt[b][1])
          /\ gt_size(gt[b][1]) # gt_size(gt[b][0])

\* The anchors left in the negative mask: in pos_neg_mask and not positive.
Negatives(b) == {a \in Anchors : pos_neg_mask[b][a] # 0 /\ positive_mask[b][a] = 0}

\* C7: after mining at most 3 negatives per positive are left, and every
\* positive anchor is still set in pos_neg_mask.
C7_MiningCapKeepsPositives ==
    \A b \in Items :
        /\ fw[b].num_negative_anchors <= 3 * num_positive_anchors[b]
        /\ Cardinality(Negatives(b)) <= 3 * num_positive_anchors[b]
        /\ \A a \in Anchors : positive_mask[b][a] # 0 => pos_neg_mask[b][a] # 0

\* C7 witness: an item with positives where the filter left more than 3
\* negatives per positive and mining cut them down to the cap.
C7_Witness ==
    \E b \in Items :
        /\ num_positive_anchors[b] >= 1
        /\ arm_filter(positive_mask[b], [a \in Anchors |-> input[b][a].arm_conf])
              .num_negative_anchors > 3 * num_positive_anchors[b]
        /\ Cardinality(Negatives(b)) = 3 * num_positive_anchors[b]
        /\ \E a \in Anchors : positive_mask[b][a] # 0 /\ pos_neg_mask[b][a] # 0

\* C8: an item whose presence flag at index 0 is 0 has positive count 0 and
\* adds 0 to the loss in each of the four terms.
C8_NoBoxesNoLoss ==
    \A b \in Items :
        gt[b][0].is_label = 0 =>
            /\ num_positive_anchors[b] = 0
            /\ fw[b].added = <<0, 0, 0, 0>>

\* C9: every IoU that calc_iou returned lies between 0 and 1.
C9_IouInUnitInterval ==
    \A b \in Items : \A g \in Processed(b) : \A a \in Anchors :
        /\ 0 <= fw[b].anc_gt_iou[g][a]
        /\ fw[b].anc_gt_iou[g][a] <= IouOne

\* C10: where the box has the center and the (positive) size of an anchor, the
\* IoU returned for that anchor is 1.
C10_IouOfBoxWithItself ==
    \A b \in Items : \A g \in Processed(b) : \A a \in Anchors :
        /\ gt_center(gt[b][g]) = anchors.yx[a]
        /\ gt_size(gt[b][g]) = anchors.hw[a]
        /\ gt_size(gt[b][g])[1] > 0
        /\ gt_size(gt[b][g])[2] > 0
        => fw[b].anc_gt_iou[g][a] = IouOne

\* The single-element box set of center yx and size hw.
OneBox(v) == Vec(1, LAMBDA i : v)

\* C11: the IoU calc_iou returned for anchor a (first argument) and a box
\* (second argument) is the one it returns with the two exchanged.
C11_IouSymmetric ==
    \A b \in Items : \A g \in Processed(b) : \A a \in Anchors :
        fw[b].anc_gt_iou[g][a] =
            calc_iou(OneBox(gt_center(gt[b][g])), OneBox(gt_size(gt[b][g])),
                     anchors.yx[a], anchors.hw[a])[0]

\* prediction - target of item b, per anchor and component (yx, hw), for the
\* ARM (f1 = "arm_yx", f2 = "arm_hw") or the ODM columns of the input.
Diffs(b, f1, f2) ==
    LET x == yxhw(input[b], f1, f2)
        y == encode_target(anchor_gt_label_yx[b], anchor_gt_label_hw[b], anchors)
    IN  Table([i \in Anchors |-> [c \in 1 .. 4 |-> x[i][c] - y[i][c]]])

Abs(d) == IF d < 0 THEN 0 - d ELSE d

\* Smooth-L1 as defined: 0.5 * diff^2 for |diff| < 1, |diff| - 0.5 otherwise.
SmoothL1(d) == IF Abs(d) < One THEN (d * d) \div (2 * One) ELSE Abs(d) - One \div 2

\* Its analytic derivative: diff inside (-1, 1), -1 for diff <= -1, +1 for diff >= 1.
SmoothL1Grad(d) == IF d <= 0 - One THEN 0 - One ELSE IF d >= One THEN One ELSE d

\* The Smooth-L1 loss of the positive rows of d, and the gradient rows.
MaskedLoss(d, l) ==
    SumTo(Table([i \in Anchors |->
              IF l[i] = 0 THEN 0
              ELSE SmoothL1(d[i][1]) + SmoothL1(d[i][2]) + SmoothL1(d[i][3]) + SmoothL1(d[i][4])]),
          anchors_num)

MaskedGrad(d, l, c1, c2) ==
    Table([i \in Anchors |->
        IF l[i] = 0 THEN <<0, 0>> ELSE <<SmoothL1Grad(d[i][c1]), SmoothL1Grad(d[i][c2])>>])

\* smooth_l1 and smooth_l1_derivative on the ARM or ODM columns of item b.
LossAgrees(b, f1, f2) ==
    LET x == yxhw(input[b], f1, f2)
        y == encode_target(anchor_gt_label_yx[b], anchor_gt_label_hw[b], anchors)
        d == Diffs(b, f1, f2)
        g == smooth_l1_derivative(x, y, positive_mask[b])
    IN  /\ smooth_l1(x, y, positive_mask[b]) = MaskedLoss(d, positive_mask[b])
        /\ g.x_deriv1 = MaskedGrad(d, positive_mask[b], 1, 2)
        /\ g.x_deriv2 = MaskedGrad(d, positive_mask[b], 3, 4)

\* C12: on the predictions and targets of every item, smooth_l1 is the sum of
\* the Smooth-L1 values over the positive rows and smooth_l1_derivative is the
\* analytic derivative per element, the rows of non-positive anchors being 0 in
\* both; the regression terms forwarding added are these sums over the count.
C12_SmoothL1AndGradientAgree ==
    \A b \in Items :
        /\ LossAgrees(b, "arm_yx", "arm_hw")
        /\ LossAgrees(b, "odm_yx", "odm_hw")
        /\ num_positive_anchors[b] # 0 =>
              /\ fw[b].added[2] = MaskedLoss(Diffs(b, "arm_yx", "arm_hw"), positive_mask[b])
                                    \div num_positive_anchors[b]
              /\ fw[b].added[4] = MaskedLoss(Diffs(b, "odm_yx", "odm_hw"), positive_mask[b])
                                    \div num_positive_anchors[b]

\* C12 witness: an item whose positive rows hold a difference inside (-1, 1)
\* other than 0, one at or above 1 and one at or below -1, and which has a
\* non-positive row with a difference other than 0.
C12_Witness ==
    \E b \in Items :
        LET d == Diffs(b, "arm_yx", "arm_hw")
            pos == {i \in Anchors : positive_mask[b][i] # 0}
        IN  /\ \E i \in pos : \E c \in 1 .. 4 : d[i][c] # 0 /\ Abs(d[i][c]) < One
            /\ \E i \in pos : \E c \in 1 .. 4 : d[i][c] >= One
            /\ \E i \in pos : \E c \in 1 .. 4 : d[i][c] <= 0 - One
            /\ \E i \in Anchors \ pos : \E c \in 1 .. 4 : d[i][c] # 0
            /\ fw[b].added[2] > 0

\* const unsigned int num_anchors: the bound of the matching loop.
num_anchors ==
    num_ratios * (feature_map_size1 * feature_map_size1 + feature_map_size2 * feature_map_size2
                  + feature_map_size3 * feature_map_size3 + feature_map_size4 * feature_map_size4)

\* What create_anchors() returns in the program: the grid of all four scales.
program_anchors ==
    create_anchors(feature_map_size1, feature_map_size2, feature_map_size3, feature_map_size4)

\* The number of anchors of the model's grid, counted from its cells.
ModelAnchorCount ==
    num_ratios * (ModelFeatureMap(1) * ModelFeatureMap(1) + ModelFeatureMap(2) * ModelFeatureMap(2)
                  + ModelFeatureMap(3) * ModelFeatureMap(3) + ModelFeatureMap(4) * ModelFeatureMap(4))

\* C13: create_anchors yields 3 * (28^2 + 14^2 + 4^2 + 2^2) = 3000 centers and
\* sizes, as many as num_anchors; the anchors forwarding built and the ones
\* calcDerivative built are the same: every cached mask has one entry per anchor
\* of the grid, and the regression gradient calcDerivative emits is the one of
\* the differences to the targets encoded with the anchors of forwarding.
C13_AnchorsDeterministic ==
    /\ Size(program_anchors.yx) = 3000
    /\ Size(program_anchors.hw) = 3000
    /\ num_anchors = 3000
    /\ anchors_num = ModelAnchorCount
    /\ \A b \in Items :
          /\ Size(positive_mask[b]) = ModelAnchorCount
          /\ Size(anchor_gt_label_yx[b]) = ModelAnchorCount
          /\ (derivs > 0 /\ num_positive_anchors[b] # 0) =>
                outgoing_derivative[b].arm_yx =
                    divide_i(MaskedGrad(Diffs(b, "arm_yx", "arm_hw"), positive_mask[b], 1, 2),
                             num_positive_anchors[b], "refused")

\* C13 witness: forwarding and calcDerivative have both built the anchors, for
\* an item with positive anchors.
C13_Witness ==
    /\ derivs > 0
    /\ \E b \in Items :
          /\ num_positive_anchors[b] # 0
          /\ Size(positive_mask[b]) = ModelAnchorCount
          /\ \E i \in Anchors : outgoing_derivative[b].arm_yx[i] # <<0, 0>>

\* C14: a setProperty call with a non-empty list fails with invalid_argument, one
\* with the empty list succeeds, and either way the call changes nothing of the
\* layer: no tensor, no cached vector, no loss.
C14_SetPropertyRejects ==
    [][property' # property =>
          /\ property'.values # <<>> => property'.result = "invalid_argument"
          /\ property'.values = <<>> => property'.result = "ok"
          /\ UNCHANGED <<input, gt, cache, loss, outgoing_derivative, fw, bw, replaced, derivs>>]_vars

\* C14 witness: a call with a non-empty list was rejected after forwarding had
\* filled the cache.
C14_Witness ==
    /\ property.values # <<>>
    /\ property.result = "invalid_argument"
    /\ positive_mask # <<>>
    /\ derivs > 0

\* C15: the boxes matched for item b are item b's own boxes below its first
\* flag 0: each present box was matched, and no other box was.
C15_OwnPresentBoxesMatched ==
    \A b \in Items :
        /\ Processed(b) = Present(b)
        /\ \A g \in Processed(b) :
              fw[b].anc_gt_iou[g] =
                  calc_iou(anchors.yx, anchors.hw, gt_center(gt[b][g]), gt_size(gt[b][g]))

\* What forwarding computed for an item: its cache entries and its loss terms.
Results(item) == [cached |-> Computed(item), added |-> item.added]

\* The label tensors of the state's batch size that hold item b of the state's
\* labels at position b, the other items being any.
OtherLabels(b) == {alt \in Labels(GtItems) : Size(alt) = Size(gt) /\ alt[b] = gt[b]}

\* C16: the results of item b are those forwarding computes for item b with any
\* other ground truth in the other items of the batch.
C16_ItemsIndependent ==
    \A b \in Items : \A alt \in OtherLabels(b) :
        \E order \in SortOrders :
            Results(fw[b]) =
                Results(forward_item(input[b], alt[b], count_gt_boxes(alt), order, anchors))

\* C17: every anchor in the positive mask has, as its recorded IoU, the IoU with
\* a present box of the item, and as its cached target the center and size of
\* that box.
C17_PositiveAnchorsMatched ==
    \A b \in Items : \A a \in Anchors :
        positive_mask[b][a] # 0 =>
            \E g \in Present(b) :
                /\ fw[b].anchor_gt_label_iou[a] =
                      calc_iou(anchors.yx, anchors.hw, gt_center(gt[b][g]), gt_size(gt[b][g]))[a]
                /\ anchor_gt_label_yx[b][a] = gt_center(gt[b][g])
                /\ anchor_gt_label_hw[b][a] = gt_size(gt[b][g])

\* The IoU of every anchor with box g of item b, as calc_iou computes it.
IouWith(b, g) == calc_iou(anchors.yx, anchors.hw, gt_center(gt[b][g]), gt_size(gt[b][g]))

\* The anchors a set of boxes gs of item b makes positive: for each box the first
\* anchor of the largest IoU and every anchor of IoU above 0.5.
PositiveSet(b, gs) ==
    UNION {{max_element(IouWith(b, g))} \cup {a \in Anchors : 2 * IouWith(b, g)[a] > IouOne} : g \in gs}

\* C18: the positive mask of every item is the set its present boxes make
\* positive and nothing else, and the cached count is the number of set anchors.
C18_PositiveMaskIsUnion ==
    \A b \in Items :
        /\ \A a \in Anchors : positive_mask[b][a] = (IF a \in PositiveSet(b, Present(b)) THEN 1 ELSE 0)
        /\ num_positive_anchors[b] = Cardinality({a \in Anchors : positive_mask[b][a] # 0})

\* C19: every anchor of every item is in exactly one of three states: positive
\* (set in the positive mask and in pos_neg_mask), negative (set in the negative
\* mask and in pos_neg_mask, not positive) or ignored (in none of them); the
\* entries of pos_neg_mask are 0 or 1.
C19_TriState ==
    \A b \in Items : \A a \in Anchors :
        /\ positive_mask[b][a] \in {0, 1}
        /\ fw[b].negative_mask[a] \in {0, 1}
        /\ pos_neg_mask[b][a] \in {0, 1}
        /\ fw[b].negative_mask[a] # 0 => positive_mask[b][a] = 0
        /\ positive_mask[b][a] # 0 => pos_neg_mask[b][a] # 0
        /\ a \in Negatives(b) <=> fw[b].negative_mask[a] # 0

\* C19 witness: an item with a positive anchor, a negative anchor and ignored
\* anchors, one taken out by the filter and one by the mining.
C19_Witness ==
    \E b \in Items :
        /\ \E a \in Anchors : positive_mask[b][a] = 1 /\ pos_neg_mask[b][a] = 1
        /\ \E a \in Anchors : fw[b].negative_mask[a] = 1 /\ pos_neg_mask[b][a] = 1
        /\ \E a \in Anchors :
              /\ pos_neg_mask[b][a] = 0
              /\ 100 * input[b][a].arm_conf[1] > 99
        /\ \E a \in Anchors :
              /\ pos_neg_mask[b][a] = 0
              /\ arm_filter(positive_mask[b], [i \in Anchors |-> input[b][i].arm_conf]).negative_mask[a] = 1

\* The ARM confidences of item b, one pair per anchor.
ArmConf(b) == [a \in Anchors |-> input[b][a].arm_conf]

\* The per-anchor ARM classification loss of anchor a of item b.
ArmLoss(b, a) == anchor_loss(input[b][a].arm_conf, positive_mask[b][a])

\* Mining is triggered for item b: the filter left more than 3 negatives per positive.
MiningTriggered(b) ==
    arm_filter(positive_mask[b], ArmConf(b)).num_negative_anchors > 3 * num_positive_anchors[b]

\* The negatives of item b the mining loop removed.
MinedOut(b) ==
    {a \in Anchors : /\ arm_filter(positive_mask[b], ArmConf(b)).negative_mask[a] # 0
                     /\ fw[b].negative_mask[a] = 0}

\* C20: when mining is triggered for an item, every negative that survives has
\* an ARM loss at least that of every negative the mining removed.
C20_HardestNegativesKept ==
    \A b \in Items :
        MiningTriggered(b) =>
            \A s \in Negatives(b) : \A r \in MinedOut(b) : ArmLoss(b, s) >= ArmLoss(b, r)

\* The negative mask and count of item b after the ARM pre-filter, before mining.
PreFilter(b) == arm_filter(positive_mask[b], ArmConf(b))

\* The ARM stage gives anchor a of item b the background class 0 with
\* probability above 0.99.
BackgroundCertain(b, a) == 100 * softmax(input[b][a].arm_conf)[0] > 99 * One

\* C21: the pre-filter clears a non-positive anchor from the negative mask
\* exactly when its ARM background probability is above 0.99, takes one off the
\* negative count for each, and leaves every positive anchor out of the mask.
C21_PreFilterDropsCertainBackground ==
    \A b \in Items :
        /\ \A a \in Anchors :
              positive_mask[b][a] = 0 =>
                  (PreFilter(b).negative_mask[a] = 0 <=> BackgroundCertain(b, a))
        /\ \A a \in Anchors : positive_mask[b][a] # 0 => PreFilter(b).negative_mask[a] = 0
        /\ PreFilter(b).num_negative_anchors =
              Cardinality({a \in Anchors : positive_mask[b][a] = 0 /\ ~BackgroundCertain(b, a)})

\* clamp(prediction - target, -1, 1) / positive_count for the components c1, c2
\* of anchor a of item b, on the ARM or the ODM columns.
ClampedGrad(b, f1, f2, c1, c2, a) ==
    << SmoothL1Grad(Diffs(b, f1, f2)[a][c1]) \div num_positive_anchors[b],
       SmoothL1Grad(Diffs(b, f1, f2)[a][c2]) \div num_positive_anchors[b] >>

\* Block f of the gradient slice of item b holds the pair g for anchor a.
BlockRow(b, f, a, g) ==
    outgoing_derivative[b][f][a][1] = g[1] /\ outgoing_derivative[b][f][a][2] = g[2]

\* C22: for every item with a positive count above 0 and every positive anchor,
\* the ODM center block and the ODM size block of the gradient hold the clamped
\* difference over the positive count, as the two ARM blocks do.
C22_OdmRegressionGradient ==
    derivs > 0 =>
        \A b \in Items : \A a \in Anchors :
            (num_positive_anchors[b] > 0 /\ positive_mask[b][a] # 0) =>
                /\ BlockRow(b, "arm_yx", a, ClampedGrad(b, "arm_yx", "arm_hw", 1, 2, a))
                /\ BlockRow(b, "arm_hw", a, ClampedGrad(b, "arm_yx", "arm_hw", 3, 4, a))
                /\ BlockRow(b, "odm_yx", a, ClampedGrad(b, "odm_yx", "odm_hw", 1, 2, a))
                /\ BlockRow(b, "odm_hw", a, ClampedGrad(b, "odm_yx", "odm_hw", 3, 4, a))

\* The number by which forwarding divides a loss term of item b in the loss it
\* reports: the positive count, the divider of the term, and the batch size.
ForwardFactor(b, divider) == num_positive_anchors[b] * divider * Size(input)

\* Block f of the gradient slice of item b is the unscaled gradient t divided by n.
ScaledBy(b, f, t, n) ==
    \A a \in Anchors : \A j \in DOMAIN t[a] : outgoing_derivative[b][f][a][j] = t[a][j] \div n

\* The unscaled gradients of item b: softmax - label for the two classification
\* terms (masked for the ODM), the clamped difference for the two regression terms.
RawArmConf(b) == cross_entropy_derivative(ArmConf(b), positive_mask[b], 1, "refused")

RawOdmConf(b) ==
    cross_entropy_with_mask_derivative([a \in Anchors |-> input[b][a].odm_conf], pos_neg_mask[b], gt_class_labels[b], 1, "refused")

RawRegression(b, f1, f2) ==
    smooth_l1_derivative(yxhw(input[b], f1, f2), encode_target(anchor_gt_label_yx[b], anchor_gt_label_hw[b], anchors), positive_mask[b])

\* C23: for every item with a positive count above 0, each block of the gradient
\* is the unscaled gradient of its term divided by the number that divides the
\* term in the reported loss.
C23_BackwardMirrorsForward ==
    derivs > 0 =>
        \A b \in Items :
            num_positive_anchors[b] > 0 =>
                /\ ScaledBy(b, "arm_conf", RawArmConf(b), ForwardFactor(b, arm_conf_loss_divider))
                /\ ScaledBy(b, "arm_yx", RawRegression(b, "arm_yx", "arm_hw").x_deriv1, ForwardFactor(b, 1))
                /\ ScaledBy(b, "arm_hw", RawRegression(b, "arm_yx", "arm_hw").x_deriv2, ForwardFactor(b, 1))
                /\ ScaledBy(b, "odm_conf", RawOdmConf(b), ForwardFactor(b, 1))
                /\ ScaledBy(b, "odm_yx", RawRegression(b, "odm_yx", "odm_hw").x_deriv1, ForwardFactor(b, 1))
                /\ ScaledBy(b, "odm_hw", RawRegression(b, "odm_yx", "odm_hw").x_deriv2, ForwardFactor(b, 1))

\* -log(p + 1e-20) of the ARM probability p that anchor a of item b has the
\* binary label its positive-mask entry gives it.
ArmLabelLoss(b, a) ==
    0 - log_(softmax(input[b][a].arm_conf)[positive_mask[b][a]], One)

\* Entry j of (softmax - label) of the ARM confidences of anchor a of item b,
\* over the positive count and the ARM divider.
ArmLabelGrad(b, a, j) ==
    (softmax(input[b][a].arm_conf)[j] - (IF j = positive_mask[b][a] THEN One ELSE 0))
        \div (num_positive_anchors[b] * arm_conf_loss_divider)

\* The same entry when the positive count is 0: left undivided where the
\* division by 0 is refused, not finite where it is carried out.
ArmUndividedGrad(b, a, j, zdiv) ==
    IF zdiv = "refused"
    THEN softmax(input[b][a].arm_conf)[j] - (IF j = positive_mask[b][a] THEN One ELSE 0)
    ELSE NonFinite

\* C24: the ARM classification term of an item is the sum over all its anchors
\* of the loss under the positive-mask label, and every row of the ARM
\* classification gradient is softmax minus that label over the positive count
\* and the ARM divider, whatever pos_neg_mask holds for the anchor; with a
\* positive count of 0 the term is 0 and the rows are the outcome of the
\* division by 0.
C24_ArmClassificationUnmasked ==
    \A b \in Items :
        /\ num_positive_anchors[b] > 0 =>
              /\ fw[b].added[1] =
                    (SumTo([a \in Anchors |-> ArmLabelLoss(b, a)], anchors_num)
                        \div num_positive_anchors[b]) \div arm_conf_loss_divider
              /\ derivs > 0 =>
                    \A a \in Anchors : \A j \in 0 .. 1 :
                        outgoing_derivative[b].arm_conf[a][j] = ArmLabelGrad(b, a, j)
        /\ num_positive_anchors[b] = 0 =>
              /\ fw[b].added[1] = 0
              /\ derivs > 0 =>
                    \E zdiv \in ZeroDivisions :
                        \A a \in Anchors : \A j \in 0 .. 1 :
                            outgoing_derivative[b].arm_conf[a][j] = ArmUndividedGrad(b, a, j, zdiv)

\* C24 witness: after calcDerivative, an item with positives has an anchor the
\* pre-filter dropped and an anchor the mining removed, both outside
\* pos_neg_mask, both with a loss above 0 and a gradient row other than 0.
C24_Witness ==
    /\ derivs > 0
    /\ \E b \in Items :
          /\ num_positive_anchors[b] > 0
          /\ \E a \in MinedOut(b) :
                /\ pos_neg_mask[b][a] = 0
                /\ ArmLabelLoss(b, a) > 0
                /\ outgoing_derivative[b].arm_conf[a][0] # 0
          /\ \E a \in Anchors :
                /\ positive_mask[b][a] = 0
                /\ PreFilter(b).negative_mask[a] = 0
                /\ pos_neg_mask[b][a] = 0
                /\ ArmLabelLoss(b, a) > 0
                /\ outgoing_derivative[b].arm_conf[a][0] # 0

\* The class of box g of item b: the argmax of its one-hot class vector.
GtClass(b, g) == max_element(gt[b][g].class)

\* What anchor a of item b adds to the ODM classification loss of the item.
OdmLabelLoss(b, a) ==
    IF pos_neg_mask[b][a] = 0 THEN 0
    ELSE 0 - log_(softmax(input[b][a].odm_conf)[gt_class_labels[b][a]], One)

Target(b) == encode_target(anchor_gt_label_yx[b], anchor_gt_label_hw[b], anchors)

\* C26: the target tensor the ODM smooth-L1 call reads is element for element
\* the one the ARM call was given, the encoding of the cached labels; both
\* regression terms are the Smooth-L1 sums over the positive rows alone, and the
\* ARM blocks and the ODM center block of the gradient are taken against that
\* same target, the rows of non-positive anchors being 0.
C26_OdmRegressionSameTarget ==
    \A b \in Items :
        /\ fw[b].gt_yxhw = Target(b)
        /\ fw[b].odm_gt_yxhw = fw[b].gt_yxhw
        /\ num_positive_anchors[b] > 0 =>
              /\ fw[b].added[2] = MaskedLoss(Diffs(b, "arm_yx", "arm_hw"), positive_mask[b])
                                    \div num_positive_anchors[b]
              /\ fw[b].added[4] = MaskedLoss(Diffs(b, "odm_yx", "odm_hw"), positive_mask[b])
                                    \div num_positive_anchors[b]
              /\ derivs > 0 =>
                    \A a \in Anchors :
                        /\ BlockRow(b, "arm_yx", a, IF positive_mask[b][a] = 0 THEN <<0, 0>> ELSE ClampedGrad(b, "arm_yx", "arm_hw", 1, 2, a))
                        /\ BlockRow(b, "arm_hw", a, IF positive_mask[b][a] = 0 THEN <<0, 0>> ELSE ClampedGrad(b, "arm_yx", "arm_hw", 3, 4, a))
                        /\ BlockRow(b, "odm_yx", a, IF positive_mask[b][a] = 0 THEN <<0, 0>> ELSE ClampedGrad(b, "odm_yx", "odm_hw", 1, 2, a))
        /\ num_positive_anchors[b] = 0 => fw[b].added[2] = 0 /\ fw[b].added[4] = 0

\* C26 witness: after calcDerivative, an item with a positive anchor, a
\* surviving negative and an ignored anchor whose ODM predictions all differ
\* from the target, with both regression terms above 0.
C26_Witness ==
    /\ derivs > 0
    /\ \E b \in Items :
          /\ fw[b].added[2] > 0
          /\ fw[b].added[4] > 0
          /\ fw[b].odm_gt_yxhw = Target(b)
          /\ \E a \in Anchors : positive_mask[b][a] # 0 /\ Diffs(b, "odm_yx", "odm_hw")[a][1] # 0
          /\ \E a \in Negatives(b) : Diffs(b, "odm_yx", "odm_hw")[a][1] # 0
          /\ \E a \in Anchors : pos_neg_mask[b][a] = 0 /\ Diffs(b, "odm_yx", "odm_hw")[a][1] # 0

\* The four loss terms of item b, each over the positive count of the item
\* (the ARM classification term over the ARM divider as well); 0 for an item
\* without positives.
ItemTotal(b) ==
    IF num_positive_anchors[b] = 0 THEN 0
    ELSE (SumTo([a \in Anchors |-> ArmLabelLoss(b, a)], anchors_num)
              \div num_positive_anchors[b]) \div arm_conf_loss_divider
         + MaskedLoss(Diffs(b, "arm_yx", "arm_hw"), positive_mask[b]) \div num_positive_anchors[b]
         + SumTo([a \in Anchors |-> OdmLabelLoss(b, a)], anchors_num) \div num_positive_anchors[b]
         + MaskedLoss(Diffs(b, "odm_yx", "odm_hw"), positive_mask[b]) \div num_positive_anchors[b]

\* C27: the reported loss is the sum of the totals of the items over the batch
\* size, the total of an item being computed from that item alone.
C27_BatchLossIsMean ==
    Items # {} =>
        loss = SumTo([b \in Items |-> ItemTotal(b)], Size(input)) \div Size(input)

\* C27 witness: a batch of two items with different totals above 0.
C27_Witness ==
    /\ Size(input) = 2
    /\ ItemTotal(0) > 0
    /\ ItemTotal(1) > 0
    /\ ItemTotal(0) # ItemTotal(1)
    /\ loss = (ItemTotal(0) + ItemTotal(1)) \div 2

\* The four scales of create_anchors: grid side, stride and anchor size of
\* scale s, and the index of its first anchor.
ScaleFm(s) ==
    CASE s = 1 -> feature_map_size1 [] s = 2 -> feature_map_size2
      [] s = 3 -> feature_map_size3 [] OTHER -> feature_map_size4

ScaleStride(s) == CASE s = 1 -> 8 [] s = 2 -> 16 [] s = 3 -> 32 [] OTHER -> 64

ScaleSize(s) == ScaleStride(s) * 4

RECURSIVE ScaleOffset(_)
ScaleOffset(s) ==
    IF s = 1 THEN 0 ELSE ScaleOffset(s - 1) + num_ratios * ScaleFm(s - 1) * ScaleFm(s - 1)

\* The center ((row + 0.5) * stride, (col + 0.5) * stride) of a cell and the
\* size (size * sqrt(ratio), size / sqrt(ratio)) of ratio r, on the model's grid.
CellCenter(s, row, col) ==
    << ((2 * row + 1) * ScaleStride(s) * CoordOne) \div 2,
       ((2 * col + 1) * ScaleStride(s) * CoordOne) \div 2 >>

RatioSize(s, r) ==
    << HalfPixel(ScaleSize(s) * anchor_ratios[r + 1], 10000),
       HalfPixel(ScaleSize(s) * 10000, anchor_ratios[r + 1]) >>

\* Anchor i of the program's grid is the anchor of cell (row, col) and ratio r of scale s.
IsAnchorOf(i, s, row, col, r) ==
    program_anchors.yx[i] = CellCenter(s, row, col) /\ program_anchors.hw[i] = RatioSize(s, r)

\* The index of (scale, row, col, ratio) with the ratio innermost, and with
\* the ratio outermost within the scale.
CellMajorIndex(s, row, col, r) == ScaleOffset(s) + (row * ScaleFm(s) + col) * num_ratios + r

RatioMajorIndex(s, row, col, r) == ScaleOffset(s) + (r * ScaleFm(s) + row) * ScaleFm(s) + col

\* The two layouts of the program's grid, over every scale, cell and ratio.
CellMajorLayout ==
    \A s \in 1 .. 4 : \A row, col \in 0 .. ScaleFm(s) - 1 : \A r \in 0 .. num_ratios - 1 :
        IsAnchorOf(CellMajorIndex(s, row, col, r), s, row, col, r)

RatioMajorLayout ==
    \A s \in 1 .. 4 : \A row, col \in 0 .. ScaleFm(s) - 1 : \A r \in 0 .. num_ratios - 1 :
        /\ IsAnchorOf(RatioMajorIndex(s, row, col, r), s, row, col, r)
        /\ program_anchors.yx[RatioMajorIndex(s, row, col, r)] =
              program_anchors.yx[RatioMajorIndex(s, row, col, 0)]

\* C28: the anchors forwarding builds enumerate (scale, row, col, ratio) in that
\* nesting order, finest grid first: the three ratios of a cell lie at three
\* consecutive indices and share the center of the cell.
C28_AnchorLayoutCellMajor == Items # {} => CellMajorLayout

\* C28 as amended: the anchors enumerate (scale, ratio, row, col), finest grid
\* first: the cells of one ratio of a scale lie at consecutive indices in
\* row-major order, and the three ratios of a cell share its center.
C28_AnchorLayoutRatioMajor == Items # {} => RatioMajorLayout

\* C28 witness: forwarding has built the anchors; the three ratios of cell
\* (0, 1) of the finest grid lie a whole grid apart, and index 1, which follows
\* the first ratio of cell (0, 0), is the first ratio of cell (0, 1).
C28_Witness ==
    /\ Items # {}
    /\ IsAnchorOf(1, 1, 0, 1, 0)
    /\ IsAnchorOf(1 + feature_map_size1 * feature_map_size1, 1, 0, 1, 1)
    /\ IsAnchorOf(1 + 2 * feature_map_size1 * feature_map_size1, 1, 0, 1, 2)
    /\ ~IsAnchorOf(1, 1, 0, 0, 1)

\* The pairs the miner of item b is given, before they are sorted.
PerAnchor(b) == cross_entropy_per_anchor(ArmConf(b), positive_mask[b])

\* C29: cross_entropy_per_anchor returns as many pairs as there are anchors,
\* every anchor index in exactly one pair, each with the loss of that anchor.
C29_OnePairPerAnchor ==
    \A b \in Items :
        /\ Size(PerAnchor(b)) = anchors_num
        /\ \A a \in Anchors :
              Cardinality({k \in DOMAIN PerAnchor(b) : PerAnchor(b)[k][1] = a}) = 1
        /\ \A k \in DOMAIN PerAnchor(b) :
              PerAnchor(b)[k][2] = ArmLabelLoss(b, PerAnchor(b)[k][1])

\* The first k pairs of the list v.
Take(v, k) == Vec(k, LAMBDA i : v[i])

\* The number of anchors set in the mask m.
SetIn(m) == Cardinality({a \in DOMAIN m : m[a] # 0})

\* The locals after the first k rounds of the mining loop over the sorted pairs,
\* from the locals pre the filter loop left.
MiningTo(sorted, pre, cap, k) == mining_loop(Take(sorted, k), 0, pre, cap)

\* The locals of item b after the first n rounds of the filter loop.
FilterTo(b, n) == prefilter_to(n, positive_mask[b], ArmConf(b))

\* After n rounds of the filter loop the count st holds is the number of anchors
\* set in its mask plus the non-positive anchors the loop has not reached.
FilterInStep(b, st, n) == st.num_negative_anchors = SetIn(st.negative_mask) + Cardinality({a \in Anchors : a >= n /\ positive_mask[b][a] = 0})

\* The count st holds is the number of anchors set in its mask, and st is pre
\* where pre is within the cap.
MiningInStep(st, pre, cap) == st.num_negative_anchors = SetIn(st.negative_mask) /\ (pre.num_negative_anchors <= cap => st = pre)

\* The mask and count of item b are the ones st holds.
MiningResult(b, st) == fw[b].negative_mask = st.negative_mask /\ fw[b].num_negative_anchors = st.num_negative_anchors

\* Every round of the mining loop over the sorted pairs is in step.
RoundsInStep(sorted, pre, cap) == \A k \in 0 .. Size(sorted) : MiningInStep(MiningTo(sorted, pre, cap, k), pre, cap)

\* Every round of the mining loop over the pairs in every order is in step.
MiningLoopInStep(pairs, pre, cap) == \A order \in SortOrders : RoundsInStep(sort(pairs, order), pre, cap)

\* The mask and count of item b are the ones the whole loop leaves in one order.
MiningLoopEnds(b, pairs, pre, cap) == \E order \in SortOrders : MiningResult(b, MiningTo(sort(pairs, order), pre, cap, Size(pairs)))

====
